---- MODULE Spec2Model ----
(***************************************************************************)
(* Model of watch_pintofview.py: the Substack watcher.                     *)
(*                                                                         *)
(*   Spec          runs of main() against state.json and the upstream feed *)
(*   SpecSave      save_state() step by step, with a concurrent load_state *)
(*   SpecClassify  is_ticketing_link() applied to URLs                     *)
(*   SpecExtract   extract_ticket_link() applied to HTML bodies            *)
(*                                                                         *)
(* Strings that the code searches or lower-cases are sequences of          *)
(* one-character strings, so that `in` and .lower() are computed.          *)
(***************************************************************************)
EXTENDS Integers, Sequences, FiniteSets, TLC

VARIABLES
    file,        \* state.json on disk: [exists, data], data a sequence of JSON chunks
    env,         \* EMAIL_ADDRESS / EMAIL_APP_PASSWORD / EMAIL_TO of the process
    run,         \* what the most recent run of main() did
    same_feed,   \* the most recent run fetched the same feed as the run before it
    prev_sends,  \* number of send_email calls of the run before the most recent one
    saver,       \* save_state() in progress: position, buffered chunks
    observed,    \* what the most recent load_state() returned
    url,         \* SpecClassify: the URL under classification
    verdict,     \* SpecClassify: result of is_ticketing_link(url)
    html,        \* SpecExtract: the body handed to extract_ticket_link
    found        \* SpecExtract: result of extract_ticket_link(html)

vars == <<file, env, run, same_feed, prev_sends, saver, observed, url, verdict, html, found>>

(***************************************************************************)
(* Python values                                                           *)
(***************************************************************************)
None == <<"None">>
Str(s) == <<"str", s>>
IsStr(v) == v[1] = "str"

\* truthiness of None / str, as `if x:` and `not x` evaluate it
\* (Truthy for strings kept whole, TruthySeq for strings kept as characters or tokens)
Truthy(v) == IsStr(v) /\ v[2] # ""
TruthySeq(v) == IsStr(v) /\ Len(v[2]) > 0

(***************************************************************************)
(* Character strings                                                       *)
(***************************************************************************)
S_substack_com == <<"s", "u", "b", "s", "t", "a", "c", "k", ".", "c", "o", "m">>
S_pintofviewclub == <<"p", "i", "n", "t", "o", "f", "v", "i", "e", "w", "c", "l", "u", "b">>
S_facebook_com == <<"f", "a", "c", "e", "b", "o", "o", "k", ".", "c", "o", "m">>
S_twitter_com == <<"t", "w", "i", "t", "t", "e", "r", ".", "c", "o", "m">>
S_instagram_com == <<"i", "n", "s", "t", "a", "g", "r", "a", "m", ".", "c", "o", "m">>
S_linkedin_com == <<"l", "i", "n", "k", "e", "d", "i", "n", ".", "c", "o", "m">>
S_eventbrite == <<"e", "v", "e", "n", "t", "b", "r", "i", "t", "e">>
S_ticket == <<"t", "i", "c", "k", "e", "t">>
S_lu_ma == <<"l", "u", ".", "m", "a">>
S_ra_co == <<"r", "a", ".", "c", "o">>
S_razorpay_com == <<"r", "a", "z", "o", "r", "p", "a", "y", ".", "c", "o", "m">>
S_bookmyshow == <<"b", "o", "o", "k", "m", "y", "s", "h", "o", "w">>
S_book == <<"b", "o", "o", "k">>
S_rsvp == <<"r", "s", "v", "p">>
S_register == <<"r", "e", "g", "i", "s", "t", "e", "r">>

\* str.lower() on the letters that occur in the model's URLs
LowerChar(c) ==
    CASE c = "A" -> "a" [] c = "B" -> "b" [] c = "C" -> "c" [] c = "E" -> "e"
      [] c = "F" -> "f" [] c = "K" -> "k" [] c = "M" -> "m" [] c = "O" -> "o"
      [] c = "P" -> "p" [] c = "R" -> "r" [] c = "S" -> "s" [] c = "T" -> "t"
      [] c = "V" -> "v" [] OTHER -> c

Lower(s) == [i \in 1..Len(s) |-> LowerChar(s[i])]

\* `sub in s` for Python strings
Contains(s, sub) ==
    \E i \in 1..(Len(s) - Len(sub) + 1) : SubSeq(s, i, i + Len(sub) - 1) = sub

(***************************************************************************)
(* Ticketing logic                                                         *)
(***************************************************************************)
KNOWN_TICKETING_DOMAINS ==
    <<S_eventbrite, S_ticket, S_lu_ma, S_ra_co, S_razorpay_com, S_bookmyshow>>

TICKET_KEYWORDS == <<S_ticket, S_book, S_rsvp, S_register>>

\* a variant that looks at the inclusion lists before the social exclusion
is_ticketing_link_inclusion_first(u) ==
    LET url_lower == Lower(u) IN
    IF Contains(url_lower, S_substack_com) /\ Contains(url_lower, S_pintofviewclub)
    THEN FALSE
    ELSE IF \E i \in 1..Len(KNOWN_TICKETING_DOMAINS) :
                Contains(url_lower, KNOWN_TICKETING_DOMAINS[i])
    THEN TRUE
    ELSE IF \E i \in 1..Len(TICKET_KEYWORDS) : Contains(url_lower, TICKET_KEYWORDS[i])
    THEN TRUE
    ELSE FALSE

is_ticketing_link(u) ==
    LET url_lower == Lower(u) IN
    IF Contains(url_lower, S_substack_com) /\ Contains(url_lower, S_pintofviewclub)
    THEN FALSE
    ELSE IF \/ Contains(url_lower, S_facebook_com)
            \/ Contains(url_lower, S_twitter_com)
            \/ Contains(url_lower, S_instagram_com)
            \/ Contains(url_lower, S_linkedin_com)
    THEN FALSE
    ELSE IF \E i \in 1..Len(KNOWN_TICKETING_DOMAINS) :
                Contains(url_lower, KNOWN_TICKETING_DOMAINS[i])
    THEN TRUE
    ELSE IF \E i \in 1..Len(TICKET_KEYWORDS) : Contains(url_lower, TICKET_KEYWORDS[i])
    THEN TRUE
    ELSE FALSE

(***************************************************************************)
(* HTML bodies.  A body is the sequence of tokens HTMLParser.feed() hands  *)
(* to the handlers: <<"starttag", tag, attrs>> reaches handle_starttag     *)
(* (tag and attribute names lower-cased by the parser, attrs a sequence of *)
(* <<name, value>>, value None for a bare attribute), <<"data">> is text.  *)
(* The empty sequence is the empty string.                                 *)
(***************************************************************************)
StartTag(tag, attrs) == <<"starttag", tag, attrs>>
Data == <<"data">>

RECURSIVE LastHref(_, _)
\* the loop of handle_starttag over attrs: the last href attribute wins
LastHref(attrs, href) ==
    IF attrs = <<>> THEN href
    ELSE LastHref(Tail(attrs), IF Head(attrs)[1] = "href" THEN Head(attrs)[2] ELSE href)

\* LinkExtractor.handle_starttag: the links appended for one start tag
handle_starttag(tag, attrs) ==
    IF tag = "a"
    THEN LET href == LastHref(attrs, None) IN
         IF TruthySeq(href) THEN <<href[2]>> ELSE <<>>
    ELSE <<>>

RECURSIVE ParserLinks(_)
\* LinkExtractor().feed(body_html); parser.links
ParserLinks(body) ==
    IF body = <<>> THEN <<>>
    ELSE LET tok == Head(body) IN
         (IF tok[1] = "starttag" THEN handle_starttag(tok[2], tok[3]) ELSE <<>>)
            \o ParserLinks(Tail(body))

RECURSIVE FirstTicketing(_)
FirstTicketing(links) ==
    IF links = <<>> THEN None
    ELSE IF is_ticketing_link(Head(links)) THEN Str(Head(links))
    ELSE FirstTicketing(Tail(links))

\* a variant that returns the first link of the body, qualifying or not
extract_ticket_link_first_overall(body) ==
    LET links == ParserLinks(body) IN
    IF links = <<>> THEN None
    ELSE IF \E i \in 1..Len(links) : is_ticketing_link(links[i]) THEN Str(links[1])
    ELSE None

extract_ticket_link(body) == FirstTicketing(ParserLinks(body))

(***************************************************************************)
(* state.json                                                              *)
(*                                                                         *)
(* A dict is a sequence of <<key, value>> pairs in insertion order.  The   *)
(* file holds the chunks json.dump writes: <<"{}">> for the empty dict,    *)
(* otherwise <<"{">>, one <<"kv", key, value>> per item, <<"}">>.          *)
(***************************************************************************)
EmptyDict == <<>>

DictHas(d, k) == \E i \in 1..Len(d) : d[i][1] = k

\* dict.get(k): None when the key is missing
DictGet(d, k) ==
    IF DictHas(d, k) THEN d[CHOOSE i \in 1..Len(d) : d[i][1] = k][2] ELSE None

\* d[k] = v
DictSet(d, k, v) ==
    IF DictHas(d, k)
    THEN [d EXCEPT ![CHOOSE i \in 1..Len(d) : d[i][1] = k] = <<k, v>>]
    ELSE Append(d, <<k, v>>)

\* the chunks json.dump(state, f, indent=2) writes to f
json_dump(state) ==
    IF state = EmptyDict THEN << <<"{}">> >>
    ELSE << <<"{">> >> \o [i \in 1..Len(state) |-> <<"kv", state[i][1], state[i][2]>>]
            \o << <<"}">> >>

JSONDecodeError == <<"JSONDecodeError">>

\* json.load(f): the dict a complete document holds, JSONDecodeError otherwise
json_load(data) ==
    IF data = << <<"{}">> >> THEN <<"dict", EmptyDict>>
    ELSE IF /\ Len(data) >= 3
            /\ data[1] = <<"{">>
            /\ data[Len(data)] = <<"}">>
            /\ \A i \in 2..(Len(data) - 1) : data[i][1] = "kv"
    THEN <<"dict", [i \in 1..(Len(data) - 2) |-> <<data[i + 1][2], data[i + 1][3]>>]>>
    ELSE JSONDecodeError

NoFile == [exists |-> FALSE, data |-> <<>>]
FileOf(data) == [exists |-> TRUE, data |-> data]

load_state(f) ==
    IF ~f.exists THEN EmptyDict
    ELSE LET doc == json_load(f.data) IN
         IF doc = JSONDecodeError THEN EmptyDict ELSE doc[2]

\* save_state run to completion: open(STATE_FILE, "w"), json.dump, close
save_state(state) == FileOf(json_dump(state))

(***************************************************************************)
(* The feed                                                                *)
(*                                                                         *)
(* A feed is what the network gives one run: the outcome of requests.get   *)
(* (+ raise_for_status), the outcome of the curl fallback, and the body.   *)
(* A body is <<"empty">>, <<"malformed">> (ET.fromstring raises            *)
(* ParseError) or <<"xml", root>>.  Element.find gives Missing or an       *)
(* element <<"elem", text>>, text None for an element without text.        *)
(***************************************************************************)
Missing == <<"Missing">>
Elem(text) == <<"elem", text>>

fetch_with_curl(feed) == IF feed.curl = "ok" THEN feed.content ELSE None

fetch_feed(feed) ==
    IF feed.requests = "ok" THEN feed.content ELSE fetch_with_curl(feed)

\* `not feed_content`: None or empty bytes
NoContent(feed_content) == feed_content = None \/ feed_content = <<"empty">>

(***************************************************************************)
(* Notification                                                            *)
(***************************************************************************)
NoMail == [kind |-> "none", raised |-> FALSE]

SmtpOutcomes == {"ok", "auth_rejected", "connection_refused", "timeout"}

\* a variant without the try/except around the SMTP conversation
send_email_uncaught(post_title, published_date, ticket_link, smtp) ==
    IF ~Truthy(env.EMAIL_ADDRESS) \/ ~Truthy(env.EMAIL_APP_PASSWORD) \/ ~Truthy(env.EMAIL_TO)
    THEN [kind |-> "dry_run", raised |-> FALSE, delivered |-> FALSE,
          title |-> post_title, date |-> published_date, ticket |-> ticket_link]
    ELSE [kind |-> "smtp", raised |-> smtp # "ok", delivered |-> smtp = "ok",
          title |-> post_title, date |-> published_date,
          ticket |-> IF TruthySeq(ticket_link) THEN ticket_link
                     ELSE Str("No specific booking link found.")]

\* send_email: what it did; raised says whether an exception left the function
send_email(post_title, published_date, ticket_link, smtp) ==
    IF ~Truthy(env.EMAIL_ADDRESS) \/ ~Truthy(env.EMAIL_APP_PASSWORD) \/ ~Truthy(env.EMAIL_TO)
    THEN [kind |-> "dry_run", raised |-> FALSE, delivered |-> FALSE,
          title |-> post_title, date |-> published_date, ticket |-> ticket_link]
    ELSE [kind |-> "smtp", raised |-> FALSE, delivered |-> smtp = "ok",
          title |-> post_title, date |-> published_date,
          ticket |-> IF TruthySeq(ticket_link) THEN ticket_link
                     ELSE Str("No specific booking link found.")]

(***************************************************************************)
(* main()                                                                  *)
(***************************************************************************)
\* a variant that compares identifiers case-insensitively
FoldId(v) == IF v = Str("Post-1") THEN Str("post-1") ELSE v
is_same_post_normalised(last_post_id, current_id) ==
    Truthy(last_post_id) /\ FoldId(current_id) = FoldId(last_post_id)

\* a variant with the comparison inverted
is_same_post_inverted(last_post_id, current_id) ==
    Truthy(last_post_id) /\ current_id # last_post_id

\* `last_post_id and current_id == last_post_id`
is_same_post(last_post_id, current_id) ==
    Truthy(last_post_id) /\ current_id = last_post_id

\* a variant that prefers the description over content:encoded
select_body_description_first(latest_item) ==
    IF latest_item.description # Missing THEN latest_item.description[2]
    ELSE IF latest_item.content_encoded # Missing THEN latest_item.content_encoded[2]
    ELSE Str(<<>>)

\* body_html: content:encoded if the element is there, else description, else ""
select_body(latest_item) ==
    IF latest_item.content_encoded # Missing THEN latest_item.content_encoded[2]
    ELSE IF latest_item.description # Missing THEN latest_item.description[2]
    ELSE Str(<<>>)

\* a variant in which ET.ParseError is not handled
on_parse_error_unhandled == "crashed"

\* except ET.ParseError: the error is printed and main returns
on_parse_error == "returned"

Unbound == <<"unbound">>

\* a run that ends before a post is examined; state.json is not touched
EarlyExit(status, exit, last_post_id) ==
    [status |-> status, exit |-> exit, last_post_id |-> last_post_id,
     current_id |-> Unbound, body_html |-> Unbound, ticket_link |-> Unbound,
     mail |-> NoMail, wrote |-> FALSE, file |-> file]

\* main(), given what the network and the mail relay do during the run
main(feed, smtp) ==
    LET state == load_state(file)
        last_post_id == DictGet(state, "last_post_id")
        feed_content == fetch_feed(feed)
    IN
    IF NoContent(feed_content) THEN EarlyExit("returned", "no_feed", last_post_id)
    ELSE IF feed_content[1] = "malformed"
    THEN EarlyExit(on_parse_error, "parse_error", last_post_id)
    ELSE
    LET channel == feed_content[2].channel IN
    IF channel = Missing THEN EarlyExit("returned", "no_channel", last_post_id)
    ELSE IF channel[2] = <<>> THEN EarlyExit("returned", "no_items", last_post_id)
    ELSE
    LET latest_item == channel[2][1] IN
    IF \/ latest_item.title = Missing \/ latest_item.link = Missing
       \/ latest_item.pubDate = Missing \/ latest_item.guid = Missing
    THEN EarlyExit("crashed", "AttributeError", last_post_id)
    ELSE
    LET title == latest_item.title[2]
        pub_date == latest_item.pubDate[2]
        current_id == latest_item.guid[2]
    IN
    IF is_same_post(last_post_id, current_id)
    THEN [EarlyExit("returned", "no_new", last_post_id) EXCEPT !.current_id = current_id]
    ELSE
    LET body_html == select_body(latest_item)
        ticket_link == IF TruthySeq(body_html) THEN extract_ticket_link(body_html[2])
                       ELSE None
        mail == send_email(title, pub_date, ticket_link, smtp)
        new_state == DictSet(DictSet(state, "last_post_id", current_id),
                             "last_published_at", pub_date)
    IN
    IF mail.raised
    THEN [status |-> "crashed", exit |-> "send_email", last_post_id |-> last_post_id,
          current_id |-> current_id, body_html |-> body_html, ticket_link |-> ticket_link,
          mail |-> mail, wrote |-> FALSE, file |-> file]
    ELSE [status |-> "returned", exit |-> "processed", last_post_id |-> last_post_id,
          current_id |-> current_id, body_html |-> body_html, ticket_link |-> ticket_link,
          mail |-> mail, wrote |-> TRUE, file |-> save_state(new_state)]

(***************************************************************************)
(* Inputs of the runs                                                      *)
(***************************************************************************)
U_plain == <<"x", ".", "i", "o">>

Anchor(u) == StartTag("a", << <<"href", Str(u)>> >>)

\* bodies: with a ticketing link, without one, and a second ticketing link
BodyTicketA == <<Data, Anchor(U_plain), Anchor(S_lu_ma)>>
BodyNoTicket == <<Anchor(U_plain), Data>>
BodyTicketB == <<Anchor(S_ra_co)>>

GuidElems == {Missing, Elem(None), Elem(Str("post-1")), Elem(Str("Post-1"))}
ContentElems == {Missing, Elem(None), Elem(Str(BodyTicketA)), Elem(Str(BodyNoTicket))}
DescriptionElems == {Missing, Elem(None), Elem(Str(BodyTicketB))}

Item(t, l, d, g, c, s) ==
    [title |-> t, link |-> l, pubDate |-> d, guid |-> g,
     content_encoded |-> c, description |-> s]

\* items that differ in their guid, items that differ in their body fields, and
\* items that lack one of the elements main() reads
Items ==
    {Item(Elem(Str("T1")), Elem(Str("L1")), Elem(Str("D1")), g, Missing, Missing) :
        g \in GuidElems}
    \cup {Item(Elem(Str("T2")), Elem(Str("L2")), Elem(Str("D2")), Elem(Str("post-1")), c, s) :
            c \in ContentElems, s \in DescriptionElems}
    \cup {Item(Missing, Elem(Str("L1")), Elem(Str("D1")), Elem(Str("post-1")), Missing, Missing),
          Item(Elem(None), Missing, Elem(Str("D1")), Elem(Str("post-1")), Missing, Missing),
          Item(Elem(Str("T1")), Elem(Str("L1")), Missing, Elem(Str("post-1")), Missing, Missing)}

OlderItem ==
    Item(Elem(Str("T0")), Elem(Str("L0")), Elem(Str("D0")), Elem(Str("post-0")),
         Elem(Str(BodyTicketB)), Missing)

Xml(items) == <<"xml", [channel |-> Elem(items)]>>

Feed(r, c, body) == [requests |-> r, curl |-> c, content |-> body]

\* runs in which no post is available
NoPostFeeds ==
    {Feed("network_error", "error", <<"empty">>),
     Feed("http_error", "error", <<"empty">>),
     Feed("http_error", "ok", <<"malformed">>),
     Feed("http_error", "ok", <<"empty">>),
     Feed("http_error", "ok", <<"xml", [channel |-> Missing]>>),
     Feed("ok", "not_run", <<"empty">>),
     Feed("ok", "not_run", <<"malformed">>),
     Feed("ok", "not_run", <<"xml", [channel |-> Missing]>>),
     Feed("network_error", "ok", Xml(<<>>)),
     Feed("ok", "not_run", Xml(<<>>))}

PostFeeds ==
    {Feed("ok", "not_run", Xml(<<i>>)) : i \in Items}
    \cup {Feed("network_error", "ok", Xml(<<i, OlderItem>>)) :
            i \in {Item(Elem(Str("T1")), Elem(Str("L1")), Elem(Str("D1")), g, Missing, Missing) :
                     g \in {Elem(None), Elem(Str("Post-1"))}}}

Feeds == NoPostFeeds \cup PostFeeds

Configured == Str("set")
Envs ==
    {[EMAIL_ADDRESS |-> Configured, EMAIL_APP_PASSWORD |-> Configured, EMAIL_TO |-> Configured],
     [EMAIL_ADDRESS |-> None, EMAIL_APP_PASSWORD |-> Configured, EMAIL_TO |-> Configured],
     [EMAIL_ADDRESS |-> Configured, EMAIL_APP_PASSWORD |-> Configured, EMAIL_TO |-> Str("")]}

\* state.json before the first run: no file, the documented {}, a record written by
\* an earlier run, or what an interrupted save_state leaves behind
StoredIds == {None, Str("post-1"), Str("Post-1")}
InitFiles ==
    {NoFile, FileOf(<<>>), FileOf(<< <<"{">> >>), FileOf(json_dump(EmptyDict))}
    \cup {save_state(<< <<"last_post_id", i>>, <<"last_published_at", Str("D0")>> >>) :
            i \in StoredIds}

NoCredentials == [EMAIL_ADDRESS |-> None, EMAIL_APP_PASSWORD |-> None, EMAIL_TO |-> None]
NoRun == [status |-> "none"]
Idle == [pc |-> "idle"]
Unset == <<>>

Sends(r) == IF r.status = "none" \/ r.mail.kind = "none" THEN 0 ELSE 1

(***************************************************************************)
(* Spec: successive runs of main()                                         *)
(***************************************************************************)
Init ==
    /\ file \in InitFiles
    /\ env \in Envs
    /\ run = NoRun
    /\ same_feed = FALSE
    /\ prev_sends = 0
    /\ saver = Idle
    /\ observed = Unset
    /\ url = Unset
    /\ verdict = Unset
    /\ html = Unset
    /\ found = Unset

\* one run of the program; run records the result next to the inputs of the run
\* (r is bound once, so that main is evaluated once per run)
Main(feed, smtp) ==
    \E r \in {main(feed, smtp)} :
    /\ file' = r.file
    /\ run' = [status |-> r.status, exit |-> r.exit, feed |-> feed, smtp |-> smtp,
               file_before |-> file, last_post_id |-> r.last_post_id,
               current_id |-> r.current_id, body_html |-> r.body_html,
               ticket_link |-> r.ticket_link, mail |-> r.mail, wrote |-> r.wrote]
    /\ same_feed' = (run.status # "none" /\ run.feed = feed)
    /\ prev_sends' = Sends(run)
    /\ UNCHANGED <<env, saver, observed, url, verdict, html, found>>

\* the mail relay answers only a process that has all three credentials
SmtpFor(e) ==
    IF Truthy(e.EMAIL_ADDRESS) /\ Truthy(e.EMAIL_APP_PASSWORD) /\ Truthy(e.EMAIL_TO)
    THEN SmtpOutcomes ELSE {"not_contacted"}

Next == \E feed \in Feeds, smtp \in SmtpFor(env) : Main(feed, smtp)

Spec == Init /\ [][Next]_vars

(***************************************************************************)
(* Properties of the runs.  They are stated over the inputs of the run     *)
(* (state.json before it, the feed, the relay's answer) and its effects.   *)
(***************************************************************************)
Ran == run.status # "none"

\* lastPostId of a persisted record; None when the record or the field is absent
StoredId(f) == DictGet(load_state(f), "last_post_id")
StoredDate(f) == DictGet(load_state(f), "last_published_at")

\* the feed gives no post: nothing fetched, nothing parseable, no channel or no item
NoPostAvailable(feed) ==
    \/ feed.requests # "ok" /\ feed.curl # "ok"
    \/ feed.content \in {<<"empty">>, <<"malformed">>}
    \/ feed.content[1] = "xml" /\ feed.content[2].channel = Missing
    \/ feed.content[1] = "xml" /\ feed.content[2].channel # Missing
          /\ feed.content[2].channel[2] = <<>>

LatestItem(feed) == feed.content[2].channel[2][1]

\* the feed gives a post with a title, a link, a publish date and an identifier element
HasPost(feed) ==
    /\ ~NoPostAvailable(feed)
    /\ LatestItem(feed).title # Missing /\ LatestItem(feed).link # Missing
    /\ LatestItem(feed).pubDate # Missing /\ LatestItem(feed).guid # Missing

FetchedId(feed) == LatestItem(feed).guid[2]
FetchedDate(feed) == LatestItem(feed).pubDate[2]

Fetched == Ran /\ HasPost(run.feed)
TreatedAsNew == run.exit # "no_new"

\* C1: when the stored lastPostId is set and the fetched post's id equals it, the run
\* sends no email (real or dry-run), writes nothing, and leaves state.json as it was.
C1_NoNoveltyNoEffect ==
    (Fetched /\ StoredId(run.file_before) # None
        /\ FetchedId(run.feed) = StoredId(run.file_before))
    => (run.mail.kind = "none" /\ ~run.wrote /\ file = run.file_before)

C1_Witness ==
    /\ Fetched /\ StoredId(run.file_before) = Str("post-1")
    /\ FetchedId(run.feed) = Str("post-1")
    /\ run.status = "returned" /\ file = run.file_before

\* C2: two successive runs over the same feed content, from any persisted state and
\* with any fetched post, send exactly one email in total.
C2_ExactlyOneSendInTwoRuns ==
    (Fetched /\ same_feed) => (prev_sends + Sends(run) = 1)

\* C3: a run treats the fetched post as new exactly when the stored lastPostId is
\* absent or differs from the fetched id under exact equality (no normalisation).
C3_NewIffAbsentOrDifferent ==
    Fetched =>
        (TreatedAsNew <=> (StoredId(run.file_before) = None
                            \/ FetchedId(run.feed) # StoredId(run.file_before)))

C3_Witness ==
    /\ Fetched /\ StoredId(run.file_before) = Str("post-1")
    /\ FetchedId(run.feed) = Str("Post-1")
    /\ TreatedAsNew /\ run.mail.kind # "none" /\ StoredId(file) = Str("Post-1")

\* C4: when no post is available the run returns normally, sends no email and
\* leaves state.json unchanged.
C4_NoPostNoEffect ==
    (Ran /\ NoPostAvailable(run.feed))
    => (run.status = "returned" /\ run.mail.kind = "none" /\ ~run.wrote
          /\ file = run.file_before)

C4_Witness ==
    /\ Ran /\ run.feed.content = <<"malformed">> /\ fetch_feed(run.feed) # None
    /\ StoredId(run.file_before) = Str("post-1")
    /\ run.status = "returned" /\ file = run.file_before

DeliveryFailures == {"auth_rejected", "connection_refused", "timeout"}

\* C5: in a run that detects a new post, a delivery failure does not abort the run:
\* the new post's identifier and publish date are persisted afterwards.
C5_DeliveryFailureStillPersists ==
    (Fetched /\ run.smtp \in DeliveryFailures
        /\ (StoredId(run.file_before) = None
              \/ FetchedId(run.feed) # StoredId(run.file_before)))
    => /\ run.mail.kind = "smtp" /\ ~run.mail.delivered
       /\ run.status = "returned" /\ run.wrote
       /\ StoredId(file) = FetchedId(run.feed)
       /\ StoredDate(file) = FetchedDate(run.feed)

C5_Witness ==
    /\ Fetched /\ run.smtp = "auth_rejected" /\ run.mail.kind = "smtp"
    /\ ~run.mail.delivered /\ run.wrote
    /\ StoredId(run.file_before) = Str("Post-1") /\ StoredId(file) = Str("post-1")

\* C6: once lastPostId is set, a run only ever overwrites it with the identifier of a
\* fetched post that differs from the stored value, and never clears it.
C6_SetIdNeverCleared ==
    (Ran /\ StoredId(run.file_before) # None)
    => /\ StoredId(file) # None
       /\ StoredId(file) # StoredId(run.file_before)
            => (Fetched /\ StoredId(file) = FetchedId(run.feed))

\* C10: for a new post the body scanned is the content:encoded text when that element
\* is there, otherwise the description text, otherwise the empty string (no link); a
\* post without content:encoded whose description holds a qualifying link yields it.
C10_BodyPreference ==
    (Fetched /\ TreatedAsNew) =>
        LET c == LatestItem(run.feed).content_encoded
            d == LatestItem(run.feed).description
        IN /\ c # Missing => run.body_html = c[2]
           /\ (c = Missing /\ d # Missing) => run.body_html = d[2]
           /\ (c = Missing /\ d = Missing)
                => (run.body_html = Str(<<>>) /\ run.ticket_link = None)
           /\ (c = Missing /\ d = Elem(Str(BodyTicketB)))
                => run.ticket_link = Str(S_ra_co)
           /\ ~TruthySeq(run.body_html) => run.ticket_link = None

C10_Witness ==
    /\ Fetched /\ TreatedAsNew
    /\ LatestItem(run.feed).content_encoded = Missing
    /\ LatestItem(run.feed).description = Elem(Str(BodyTicketB))
    /\ run.ticket_link = Str(S_ra_co) /\ run.mail.ticket = Str(S_ra_co)

(***************************************************************************)
(* SpecSave: save_state() step by step.                                    *)
(*                                                                         *)
(* open(STATE_FILE, "w") creates or truncates the file at once; json.dump  *)
(* writes its chunks into the file object's buffer; leaving the with block *)
(* closes the file, which flushes the buffer to disk.  An exception inside *)
(* the block (KeyboardInterrupt, say) also closes the file and so flushes  *)
(* what was buffered; a killed process loses its buffer.  load_state() of  *)
(* another process, or of the next run, may read the file at any point.    *)
(***************************************************************************)
SaveIds == {Str("post-1"), Str("post-2")}
SaveDates == {Str("D1"), Str("D2")}

SaveInitFiles ==
    {NoFile, FileOf(json_dump(EmptyDict)),
     save_state(<< <<"last_post_id", Str("post-0")>>, <<"last_published_at", Str("D0")>> >>)}

InitSave ==
    /\ file \in SaveInitFiles
    /\ env = NoCredentials
    /\ run = NoRun
    /\ same_feed = FALSE
    /\ prev_sends = 0
    /\ saver = Idle
    /\ observed = Unset
    /\ url = Unset
    /\ verdict = Unset
    /\ html = Unset
    /\ found = Unset

\* with open(STATE_FILE, "w") as f: the state main() built from the loaded record
SaveOpen(current_id, pub_date) ==
    /\ saver.pc # "dumping"
    /\ saver' = [pc |-> "dumping",
                 state |-> DictSet(DictSet(load_state(file), "last_post_id", current_id),
                                   "last_published_at", pub_date),
                 buf |-> <<>>,
                 previous |-> load_state(file)]
    /\ file' = FileOf(<<>>)
    /\ observed' = Unset
    /\ UNCHANGED <<env, run, same_feed, prev_sends, url, verdict, html, found>>

\* json.dump: the next chunk goes to the file object
SaveWrite ==
    /\ saver.pc = "dumping"
    /\ Len(saver.buf) < Len(json_dump(saver.state))
    /\ saver' = [saver EXCEPT !.buf = Append(@, json_dump(saver.state)[Len(@) + 1])]
    /\ UNCHANGED <<file, env, run, same_feed, prev_sends, observed, url, verdict, html, found>>

\* the with block ends: the file is closed and its buffer reaches the disk
SaveClose ==
    /\ saver.pc = "dumping"
    /\ Len(saver.buf) = Len(json_dump(saver.state))
    /\ file' = FileOf(saver.buf)
    /\ saver' = [saver EXCEPT !.pc = "done"]
    /\ UNCHANGED <<env, run, same_feed, prev_sends, observed, url, verdict, html, found>>

\* an exception leaves the with block: the file is closed with what was buffered
SaveRaise ==
    /\ saver.pc = "dumping"
    /\ file' = FileOf(saver.buf)
    /\ saver' = [saver EXCEPT !.pc = "interrupted"]
    /\ UNCHANGED <<env, run, same_feed, prev_sends, observed, url, verdict, html, found>>

\* the process is killed: nothing of the buffer reaches the disk
SaveKill ==
    /\ saver.pc = "dumping"
    /\ saver' = [saver EXCEPT !.pc = "killed"]
    /\ UNCHANGED <<file, env, run, same_feed, prev_sends, observed, url, verdict, html, found>>

\* load_state() by a concurrent reader or by the next run
Load ==
    /\ observed' = <<load_state(file)>>
    /\ UNCHANGED <<file, env, run, same_feed, prev_sends, saver, url, verdict, html, found>>

NextSave ==
    \/ \E i \in SaveIds, d \in SaveDates : SaveOpen(i, d)
    \/ SaveWrite
    \/ SaveClose
    \/ SaveRaise
    \/ SaveKill
    \/ Load

SpecSave == InitSave /\ [][NextSave]_vars

\* C7: a load_state() during a save, or after a save that was interrupted, observes
\* either the complete previous record or the complete new record.
C7_NoPartialRecordObserved ==
    (saver.pc # "idle" /\ observed # Unset)
    => observed[1] \in {saver.previous, saver.state}

(***************************************************************************)
(* SpecClassify: is_ticketing_link applied to URLs                         *)
(***************************************************************************)
S_facebook == <<"f", "a", "c", "e", "b", "o", "o", "k">>
S_twitter == <<"t", "w", "i", "t", "t", "e", "r">>
S_instagram == <<"i", "n", "s", "t", "a", "g", "r", "a", "m">>
S_linkedin == <<"l", "i", "n", "k", "e", "d", "i", "n">>

H_Facebook_COM == <<"F", "a", "c", "e", "b", "o", "o", "k", ".", "C", "O", "M">>
H_fb_me_facebook == <<"f", "b", ".", "m", "e", "/", "f", "a", "c", "e", "b", "o", "o", "k">>
H_twitter_dev == <<"t", "w", "i", "t", "t", "e", "r", ".", "d", "e", "v">>
H_example_org == <<"e", "x", "a", "m", "p", "l", "e", ".", "o", "r", "g">>
H_eventbrite_com == <<"e", "v", "e", "n", "t", "b", "r", "i", "t", "e", ".", "c", "o", "m">>
H_other_substack == <<"o", "t", "h", "e", "r", ".">> \o S_substack_com
H_own == S_pintofviewclub \o <<".">> \o S_substack_com

P_ticket == <<"/">> \o S_ticket
P_RSVP == <<"/", "R", "S", "V", "P">>
P_about == <<"/", "a", "b", "o", "u", "t">>
P_register == <<"/">> \o S_register
P_slug == <<"/">> \o S_pintofviewclub

Hosts ==
    {S_facebook_com, H_Facebook_COM, H_fb_me_facebook, S_twitter_com, H_twitter_dev,
     S_instagram_com, S_linkedin_com, H_eventbrite_com, S_lu_ma, S_ra_co,
     S_razorpay_com, S_bookmyshow, H_example_org, H_other_substack, H_own}

Paths == {<<>>, P_ticket, P_RSVP, P_about, P_register, P_slug}

URLs == {h \o q : h \in Hosts, q \in Paths}

InitClassify ==
    /\ url \in {<<u>> : u \in URLs}
    /\ verdict = Unset
    /\ file = NoFile
    /\ env = NoCredentials
    /\ run = NoRun
    /\ same_feed = FALSE
    /\ prev_sends = 0
    /\ saver = Idle
    /\ observed = Unset
    /\ html = Unset
    /\ found = Unset

Classify ==
    /\ verdict = Unset
    /\ verdict' = <<is_ticketing_link(url[1])>>
    /\ UNCHANGED <<file, env, run, same_feed, prev_sends, saver, observed, url, html, found>>

NextClassify == Classify

SpecClassify == InitClassify /\ [][NextClassify]_vars

HasKeyword(u) ==
    \/ \E i \in 1..Len(KNOWN_TICKETING_DOMAINS) : Contains(Lower(u), KNOWN_TICKETING_DOMAINS[i])
    \/ \E i \in 1..Len(TICKET_KEYWORDS) : Contains(Lower(u), TICKET_KEYWORDS[i])

\* C9 as stated: every URL whose lower-cased form contains facebook, twitter, instagram
\* or linkedin is classified as not a ticket link, whatever else it contains.
C9_SocialSubstringExcluded ==
    (verdict # Unset
       /\ \E t \in {S_facebook, S_twitter, S_instagram, S_linkedin} :
             Contains(Lower(url[1]), t))
    => verdict[1] = FALSE

\* C9 amended: every URL whose lower-cased form contains facebook.com, twitter.com,
\* instagram.com or linkedin.com is classified as not a ticket link, also when it
\* matches a known ticketing platform or a keyword.
C9_SocialDomainExcluded ==
    (verdict # Unset
       /\ \E t \in {S_facebook_com, S_twitter_com, S_instagram_com, S_linkedin_com} :
             Contains(Lower(url[1]), t))
    => verdict[1] = FALSE

C9_Witness ==
    /\ url = <<H_Facebook_COM \o P_ticket>>
    /\ HasKeyword(url[1])
    /\ verdict = <<FALSE>>

(***************************************************************************)
(* SpecExtract: extract_ticket_link applied to HTML bodies                 *)
(***************************************************************************)
MaxTokens == 3

U_facebook_ticket == S_facebook_com \o P_ticket
U_register == H_example_org \o P_register

Tokens ==
    {Data,
     Anchor(U_facebook_ticket), Anchor(H_eventbrite_com), Anchor(U_register),
     Anchor(U_plain),
     StartTag("a", <<>>),
     StartTag("a", << <<"href", None>> >>),
     StartTag("a", << <<"href", Str(<<>>)>> >>),
     StartTag("link", << <<"href", Str(S_lu_ma)>> >>),
     StartTag("a", << <<"href", Str(S_ra_co)>>, <<"href", Str(U_plain)>> >>),
     StartTag("a", << <<"class", Str(S_ticket)>>, <<"href", Str(S_bookmyshow)>> >>)}

Bodies == UNION {[1..n -> Tokens] : n \in 0..MaxTokens}

InitExtract ==
    /\ html \in {<<b>> : b \in Bodies}
    /\ found = Unset
    /\ file = NoFile
    /\ env = NoCredentials
    /\ run = NoRun
    /\ same_feed = FALSE
    /\ prev_sends = 0
    /\ saver = Idle
    /\ observed = Unset
    /\ url = Unset
    /\ verdict = Unset

Extract ==
    /\ found = Unset
    /\ found' = <<extract_ticket_link(html[1])>>
    /\ UNCHANGED <<file, env, run, same_feed, prev_sends, saver, observed, url, verdict, html>>

NextExtract == Extract

SpecExtract == InitExtract /\ [][NextExtract]_vars

\* the href an anchor start tag carries: the value of its last href attribute
HrefOf(tok) ==
    LET at == {i \in 1..Len(tok[3]) : tok[3][i][1] = "href"} IN
    IF at = {} THEN None ELSE tok[3][CHOOSE i \in at : \A j \in at : j <= i][2]

\* an anchor with a non-empty href that is_ticketing_link accepts
Qualifies(tok) ==
    /\ tok[1] = "starttag" /\ tok[2] = "a"
    /\ TruthySeq(HrefOf(tok))
    /\ is_ticketing_link(HrefOf(tok)[2])

\* C8: extract_ticket_link returns the href of the first anchor, in document order,
\* that is_ticketing_link accepts, skipping earlier links that do not qualify, and
\* None when no anchor qualifies or the body is empty.
C8_FirstQualifyingLink ==
    found # Unset =>
        LET body == html[1]
            q == {i \in 1..Len(body) : Qualifies(body[i])}
        IN /\ q = {} => found[1] = None
           /\ q # {} => \E i \in q : /\ \A j \in q : i <= j
                                     /\ found[1] = HrefOf(body[i])

C8_Witness ==
    /\ html = << <<Anchor(U_facebook_ticket), Anchor(U_plain), Anchor(U_register)>> >>
    /\ found = <<Str(U_register)>>

====
